---- MODULE Spec2Model ----
(***************************************************************************)
(* Model of the interrogation backend of interactive_murder_mystery:       *)
(* backend/server.py (FastAPI: ask_question, get_clue, load_suspect_data,  *)
(* load_clue_data, call_openai_with_retry under tenacity's @retry) and the *)
(* app/ package (Flask api.py, clue_engine.py, interrogate.py, and the     *)
(* console game main.py).                                                  *)
(*                                                                         *)
(* Text is modelled as a sequence of tokens.  A token is one character     *)
(* ("z", "Z", " ", ...) or one placeholder of the prompt template          *)
(* ("{name}", ...); str.replace, str.lower, str.capitalize, str.strip and  *)
(* str.startswith are computed token by token.                             *)
(***************************************************************************)
EXTENDS Integers, Sequences, FiniteSets, TLC

VARIABLES
    apiKey,         \* the OPENAI_API_KEY of the environment: "set" or "unset"
    templateFile,   \* data/prompts/interrogation_prompt.txt: [exists, text]
    suspectFile,    \* data/suspects/z.json: [kind, data]
    upstream,       \* the upstream stub: outcome of the i-th attempt of a request
    pc,             \* position of the request being served
    op,             \* handler serving the request
    suspect,        \* request.suspect
    question,       \* request.question
    profile,        \* what load_suspect_data returned (or raised)
    prompt,         \* filled_prompt
    attempts,       \* upstream outcomes observed by this request, in order
    delays,         \* backoff delays (ms) slept by this request, in order
    response,       \* what the handler answered: [status, text, error]
    clueDirs,       \* data/clues/day1 and data/clues/"day 1": [compact, spaced]
    day,            \* the day of a clue request
    lookups,        \* calls of the clue lookup made by this request
    requests,       \* concurrent requests of one server process, by client
    eventLoop,      \* 0, or the client whose handler blocks the event loop
    console,        \* main.py: the prompt the console game waits at
    gameDay,        \* main.py: day
    interviewed,    \* main.py: interviewed
    chosen,         \* main.py: chosen, while a suspect is being questioned
    asked,          \* main.py: questions answered in the current interview
    entered         \* main.py: the last line entered at the suspect prompt

vars == <<apiKey, templateFile, suspectFile, upstream, pc, op, suspect, question,
          profile, prompt, attempts, delays, response, clueDirs, day, lookups,
          requests, eventLoop, console, gameDay, interviewed, chosen, asked,
          entered>>

\* state of the specifications of other parts of the program
game == <<console, gameDay, interviewed, chosen, asked, entered>>
elsewhere == <<requests, eventLoop, game>>

store == <<apiKey, templateFile, suspectFile, upstream, clueDirs>>

-----------------------------------------------------------------------------
(* Bounds of the model *)

MaxNameLen == 1
MaxQuestionLen == 1
MaxFiles == 2
NumClients == 2

(* Console game, main.py lines 7, 12 and 33 *)
suspects == {"zane", "serena", "logan", "jasmine", "nora", "troy", "evelyn"}
LAST_DAY == 3
QUESTIONS_PER_SUSPECT == 5

(* Configuration, server.py lines 39-41 *)
MAX_RETRIES == 3
INITIAL_BACKOFF_MS == 1000
MAX_BACKOFF_MS == 10000

-----------------------------------------------------------------------------
(* Text helpers *)

StrUpTo(alphabet, n) == UNION {[1..k -> alphabet] : k \in 0..n}

Max(a, b) == IF a >= b THEN a ELSE b
Min(a, b) == IF a <= b THEN a ELSE b

RECURSIVE Pow2(_)
Pow2(n) == IF n <= 0 THEN 1 ELSE 2 * Pow2(n - 1)

\* str.lower / str.upper on one character
LowerChar(c) == IF c = "Z" THEN "z" ELSE IF c = "S" THEN "s" ELSE c
UpperChar(c) == IF c = "z" THEN "Z" ELSE IF c = "s" THEN "S" ELSE c

\* str.lower()
Lower(s) == [i \in 1..Len(s) |-> LowerChar(s[i])]

\* str.capitalize(): first character upper-cased, the rest lower-cased
Capitalize(s) == [i \in 1..Len(s) |-> IF i = 1 THEN UpperChar(s[i]) ELSE LowerChar(s[i])]

\* str.startswith(prefix)
StartsWith(s, prefix) ==
    /\ Len(prefix) <= Len(s)
    /\ \A i \in 1..Len(prefix) : s[i] = prefix[i]

\* str.strip(): leading and trailing whitespace removed
RECURSIVE LStrip(_)
LStrip(s) == IF s # <<>> /\ Head(s) = " " THEN LStrip(Tail(s)) ELSE s
RECURSIVE RStrip(_)
RStrip(s) == IF s # <<>> /\ s[Len(s)] = " " THEN RStrip(SubSeq(s, 1, Len(s) - 1)) ELSE s
Strip(s) == RStrip(LStrip(s))

\* str.replace(old, new) for a one-token old
RECURSIVE Replace(_, _, _)
Replace(s, old, new) ==
    IF s = <<>> THEN <<>>
    ELSE (IF Head(s) = old THEN new ELSE <<Head(s)>>) \o Replace(Tail(s), old, new)

\* Python truthiness of a str: the empty string is falsy
Truthy(s) == Len(s) > 0

\* server.py capitalize_first_letter
capitalize_first_letter(s) == IF Truthy(s) THEN Capitalize(s) ELSE <<>>

-----------------------------------------------------------------------------
(* JSON values of the content store.  A value is missing (key absent),     *)
(* null, or a string; `s` is the text of a string value.                   *)

Missing == [t |-> "missing", s |-> <<>>]
NullV == [t |-> "null", s |-> <<>>]
StrV(x) == [t |-> "str", s |-> x]

\* dict.get(key, default) on a field of a parsed JSON object
Get(field, default) == IF field.t = "missing" THEN default ELSE field

\* Python truthiness of dict.get(key): None and "" are falsy
TruthyV(field) == field.t = "str" /\ Truthy(field.s)

Timeline(tr, loc, cl) ==
    [t |-> "dict", time_range |-> tr, location |-> loc, claimed_location |-> cl]
NoTimeline(kind) ==
    [t |-> kind, time_range |-> Missing, location |-> Missing, claimed_location |-> Missing]

Profile(b, tn, rel, tl) ==
    [t |-> "dict", backstory |-> b, tone |-> tn, relationship_to_victim |-> rel,
     timeline |-> tl]

\* {} : the all-defaults profile
EmptyProfile == Profile(Missing, Missing, Missing, NoTimeline("missing"))

\* a JSON document that parses but is not an object, e.g. []
ListDocument == [EmptyProfile EXCEPT !.t = "list"]

\* The suspect documents the content store may hold
SuspectDocuments ==
    { EmptyProfile,
      ListDocument,
      Profile(StrV(<<"b">>), StrV(<<"t">>), StrV(<<"r">>),
              Timeline(StrV(<<"9pm">>), StrV(<<"deck">>), StrV(<<"cabin">>))),
      Profile(StrV(<<"b">>), StrV(<<"t">>), StrV(<<"r">>),
              Timeline(StrV(<<"9pm">>), StrV(<<"deck">>), StrV(<<>>))),
      Profile(StrV(<<"b">>), NullV, StrV(<<"r">>), NoTimeline("missing")),
      Profile(StrV(<<"{tone}">>), StrV(<<"t">>), Missing, NoTimeline("null")),
      Profile(Missing, StrV(<<"t">>), StrV(<<"r">>),
              Timeline(Missing, NullV, Missing)) }

\* data/suspects/z.json as a file
SuspectFiles ==
    { [kind |-> k, data |-> EmptyProfile] : k \in {"absent", "badjson", "badutf8"} }
    \cup { [kind |-> "json", data |-> d] : d \in SuspectDocuments }

\* the one suspect file name the store may hold: z.json
SuspectStem == <<"z">>

Placeholders ==
    {"{name}", "{question}", "{tone}", "{backstory}", "{time_range}", "{location}",
     "{relationship_to_victim}"}

AllSeven ==
    <<"{name}", "{question}", "{tone}", "{backstory}", "{time_range}", "{location}",
      "{relationship_to_victim}">>

TemplateFiles ==
    { [exists |-> FALSE, text |-> <<>>],
      [exists |-> TRUE, text |-> AllSeven],
      [exists |-> TRUE, text |-> <<"Q:", "{question}", "{name}", "{question}">>] }

-----------------------------------------------------------------------------
(* Data loader, server.py *)

\* load_prompt_template: raises FileNotFoundError when the file is absent
load_prompt_template(file) ==
    IF ~file.exists THEN [raised |-> "FileNotFoundError", text |-> <<>>]
    ELSE [raised |-> "", text |-> file.text]

\* load_suspect_data: suspects/<name.lower()>.json; only json.JSONDecodeError
\* is caught, so a read error (bytes that are not UTF-8) propagates
load_suspect_data(file, name) ==
    IF Lower(name) = SuspectStem /\ file.kind # "absent"
    THEN CASE file.kind = "json" -> [raised |-> "", data |-> file.data]
           [] file.kind = "badjson" -> [raised |-> "", data |-> EmptyProfile]
           [] OTHER -> [raised |-> "UnicodeDecodeError", data |-> EmptyProfile]
    ELSE [raised |-> "", data |-> EmptyProfile]

-----------------------------------------------------------------------------
(* Prompt compilation, server.py ask_question lines 227-239 *)

\* str.replace(old, value): TypeError unless value is a str
ReplaceV(acc, old, value) ==
    IF acc.error # "" THEN acc
    ELSE IF value.t # "str" THEN [error |-> "TypeError", text |-> acc.text]
    ELSE [error |-> "", text |-> Replace(acc.text, old, value.s)]

\* timeline.get('claimed_location') or timeline.get('location', '')
LocationOf(timeline) ==
    IF TruthyV(timeline.claimed_location) THEN timeline.claimed_location
    ELSE Get(timeline.location, StrV(<<>>))

FillPrompt(template, name, q, data) ==
    IF data.t # "dict" THEN [error |-> "AttributeError", text |-> <<>>]
    ELSE
    LET backstory == Get(data.backstory, StrV(<<>>))
        timeline == IF data.timeline.t = "missing" THEN NoTimeline("dict")
                    ELSE data.timeline
        relationship == Get(data.relationship_to_victim, StrV(<<"Unknown relationship">>))
        tone == Get(data.tone, StrV(<<"neutral">>))
        p1 == ReplaceV([error |-> "", text |-> template], "{name}",
                       StrV(capitalize_first_letter(name)))
        p2 == ReplaceV(p1, "{question}", StrV(q))
        p3 == ReplaceV(p2, "{tone}", tone)
        p4 == ReplaceV(p3, "{backstory}", backstory)
    IN  IF p4.error # "" THEN p4
        ELSE IF timeline.t # "dict" THEN [error |-> "AttributeError", text |-> p4.text]
        ELSE
        LET p5 == ReplaceV(p4, "{time_range}", Get(timeline.time_range, StrV(<<>>)))
            p6 == ReplaceV(p5, "{location}", LocationOf(timeline))
        IN  ReplaceV(p6, "{relationship_to_victim}", relationship)

-----------------------------------------------------------------------------
(* Generation client, server.py lines 178-211 *)

OkReply(text) == [ok |-> TRUE, status |-> 200, reply |-> text]
\* status 0: an error object without a status_code attribute (timeout, network)
UpstreamError(status) == [ok |-> FALSE, status |-> status, reply |-> <<>>]

Outcomes ==
    { OkReply(<<" ", "r", " ">>) } \cup
    { UpstreamError(st) : st \in {401, 429, 402, 500, 0} }

Stubs == [1..MAX_RETRIES -> Outcomes]

ClassifiedStatuses == {401, 429, 402}

\* body of call_openai_with_retry, one attempt (lines 186-211)
call_openai(outcome) ==
    IF outcome.ok
    THEN [raised |-> "", status |-> 200, value |-> Strip(outcome.reply)]
    ELSE IF outcome.status # 0 /\ outcome.status \in ClassifiedStatuses
    THEN [raised |-> "HTTPException", status |-> outcome.status, value |-> <<>>]
    ELSE [raised |-> "Exception", status |-> outcome.status, value |-> <<>>]

\* retry=retry_if_exception_type((Exception,)): HTTPException is an Exception too
retry_if_exception_type(result) == result.raised # ""

\* a retry loop that gives up one attempt early
stop_after_attempt_early(attempt_number) == attempt_number >= MAX_RETRIES - 1

\* stop=stop_after_attempt(MAX_RETRIES)
stop_after_attempt(attempt_number) == attempt_number >= MAX_RETRIES

\* a backoff whose exponent counts down instead of up
wait_exponential_reversed(attempt_number) ==
    Max(Max(0, INITIAL_BACKOFF_MS),
        Min(1000 * Pow2(MAX_RETRIES - attempt_number), MAX_BACKOFF_MS))

\* wait=wait_exponential(multiplier=1, min=INITIAL_BACKOFF_MS/1000,
\*                       max=MAX_BACKOFF_MS/1000), in milliseconds
wait_exponential(attempt_number) ==
    Max(Max(0, INITIAL_BACKOFF_MS),
        Min(1000 * Pow2(attempt_number - 1), MAX_BACKOFF_MS))

\* what the @retry wrapper raises once stop is reached: reraise is not set,
\* so the last exception is wrapped in tenacity.RetryError
RetryExhausted(result) == [raised |-> "RetryError", status |-> 0, value |-> <<>>]

\* ask_question's handlers (lines 256-260): HTTPException passes, the rest is 500
AskExcept(exc) ==
    IF exc.raised = "HTTPException" THEN exc.status ELSE 500

-----------------------------------------------------------------------------
(* Clue files.  A file is <stem><ext>; `kind` says what reading it gives:  *)
(* "json" a JSON object with the fields clue, text, content; "list" a JSON *)
(* document that is not an object; "badjson" text that does not parse;     *)
(* "unreadable" a read error; "text" the raw text `body`.                  *)

JsonFile(stem, c, t, n) ==
    [stem |-> stem, ext |-> ".json", kind |-> "json", clue |-> c, text |-> t,
     content |-> n, body |-> <<>>]
OtherFile(stem, ext, kind, body) ==
    [stem |-> stem, ext |-> ext, kind |-> kind, clue |-> Missing, text |-> Missing,
     content |-> Missing, body |-> body]

ClueFiles ==
    { JsonFile(<<"z">>, StrV(<<"X">>), Missing, Missing),
      JsonFile(<<"z">>, StrV(<<"X">>), StrV(<<"T">>), StrV(<<"C">>)),
      JsonFile(<<"z">>, StrV(<<>>), StrV(<<"T">>), Missing),
      JsonFile(<<"z">>, NullV, Missing, StrV(<<"C">>)),
      JsonFile(<<"z">>, Missing, StrV(<<"T">>), StrV(<<"C">>)),
      JsonFile(<<"z">>, Missing, Missing, StrV(<<"C">>)),
      JsonFile(<<"z">>, StrV(<<>>), Missing, Missing),
      JsonFile(<<"z">>, Missing, Missing, Missing),
      OtherFile(<<"z">>, ".json", "badjson", <<>>),
      OtherFile(<<"z">>, ".txt", "text", <<" ", "W", " ">>),
      OtherFile(<<"z", "s">>, ".txt", "text", <<"V">>),
      OtherFile(<<"s">>, ".json", "list", <<>>),
      OtherFile(<<"z">>, ".md", "text", <<"M">>) }

\* what the second directory variant may hold
SpacedFiles ==
    { JsonFile(<<"z">>, StrV(<<"Y">>), Missing, Missing),
      OtherFile(<<"z">>, ".txt", "text", <<"U", " ">>),
      OtherFile(<<"s">>, ".txt", "unreadable", <<>>) }

FileName(f) == f.stem \o <<f.ext>>

\* directory listings: up to n files with distinct names, in iteration order
Listings(files, n) ==
    { l \in StrUpTo(files, n) :
        \A i, j \in DOMAIN l : i # j => FileName(l[i]) # FileName(l[j]) }

AbsentDir == [exists |-> FALSE, files |-> <<>>]
Dirs(files, n) ==
    {AbsentDir} \cup { [exists |-> TRUE, files |-> l] : l \in Listings(files, n) }

\* the directory data/clues/<day_format>; the store holds clues for day 1
ClueDir(dirs, d, format) == IF d = 1 THEN dirs[format] ELSE AbsentDir

\* the literal texts of the clue answers, one token each
CluePrefix == <<"[puzzle] Clue about ">>
NoCluePrefix == <<"No new clues for ">>
NoClueSuffix == <<" today.">>

-----------------------------------------------------------------------------
(* Clue lookup, server.py load_clue_data *)

\* a match that forgets the suffix test
Matches_any_suffix(f, name) == StartsWith(Lower(FileName(f)), Lower(name))

\* lines 147-151: the name starts with the suspect, the suffix is .json or .txt
Matches(f, name) ==
    /\ StartsWith(Lower(FileName(f)), Lower(name))
    /\ f.ext \in {".json", ".txt"}

\* a chain that looks at text before clue
ClueText_text_first(data) ==
    IF TruthyV(data.text) THEN data.text.s
    ELSE IF TruthyV(data.clue) THEN data.clue.s
    ELSE IF TruthyV(data.content) THEN data.content.s
    ELSE <<"No clue text found in JSON">>

\* line 162: data.get('clue') or data.get('text') or data.get('content') or ...
ClueText(data) ==
    IF TruthyV(data.clue) THEN data.clue.s
    ELSE IF TruthyV(data.text) THEN data.text.s
    ELSE IF TruthyV(data.content) THEN data.content.s
    ELSE <<"No clue text found in JSON">>

\* lines 159-170: read the selected file; any exception is logged
ReadClueFile(f, name) ==
    IF f.ext = ".json"
    THEN IF f.kind = "json"
         THEN [found |-> TRUE,
               text |-> CluePrefix \o capitalize_first_letter(name) \o <<": ">>
                        \o ClueText(f)]
         ELSE [found |-> FALSE, text |-> <<>>]
    ELSE IF f.kind = "text"
         THEN [found |-> TRUE,
               text |-> CluePrefix \o capitalize_first_letter(name) \o <<": ">>
                        \o Strip(f.body)]
         ELSE [found |-> FALSE, text |-> <<>>]

\* lines 133-172: one pass of the loop over the day formats
LookIn(dir, name) ==
    IF ~dir.exists THEN [found |-> FALSE, text |-> <<>>]
    ELSE LET matching_files == SelectSeq(dir.files, LAMBDA f : Matches(f, name))
         IN  IF matching_files # <<>>
             THEN ReadClueFile(matching_files[1], name)
             ELSE [found |-> FALSE, text |-> <<>>]

\* the two directory variants tried in the other order
day_formats_spaced_first == <<"spaced", "compact">>

\* line 130: day_formats = [f"day{day}", f"day {day}"]
day_formats == <<"compact", "spaced">>

load_clue_data(dirs, d, name) ==
    LET first == LookIn(ClueDir(dirs, d, day_formats[1]), name)
        second == LookIn(ClueDir(dirs, d, day_formats[2]), name)
    IN  IF first.found THEN first.text
        ELSE IF second.found THEN second.text
        ELSE NoCluePrefix \o capitalize_first_letter(name) \o NoClueSuffix

\* server.py line 267: day is None or not suspect (day is always an int here)
MissingClueParameter(d, name) == ~Truthy(name)


-----------------------------------------------------------------------------
(* The app/ package: clue_engine.py, interrogate.py *)

\* os.path.exists(f"../data/clues/{day_format}/{suspect.lower()}{ext}")
FileAt(dir, name, ext) ==
    {i \in DOMAIN dir.files : dir.exists /\ FileName(dir.files[i]) = Lower(name) \o <<ext>>}

\* clue_engine.py lines 11-18: read the file found; json.load and data.get
\* may raise, and nothing here catches it
ReadExactFile(f, name) ==
    IF f.ext = ".json"
    THEN IF f.kind = "json"
         THEN [found |-> TRUE, raised |-> "",
               text |-> CluePrefix \o Capitalize(name) \o <<": ">>
                        \o (IF f.clue.t = "missing" THEN <<"No clue found">>
                            ELSE IF f.clue.t = "str" THEN f.clue.s ELSE <<"None">>)]
         ELSE [found |-> TRUE,
               raised |-> IF f.kind = "list" THEN "AttributeError" ELSE "ValueError",
               text |-> <<>>]
    ELSE IF f.kind = "text"
         THEN [found |-> TRUE, raised |-> "",
               text |-> CluePrefix \o Capitalize(name) \o <<": ">> \o Strip(f.body)]
         ELSE [found |-> TRUE, raised |-> "OSError", text |-> <<>>]

\* clue_engine.py line 6 and line 8: the order of the candidates
clue_engine_candidates ==
    << <<"spaced", ".json">>, <<"spaced", ".txt">>,
       <<"compact", ".json">>, <<"compact", ".txt">> >>

RECURSIVE TryCandidates(_, _, _, _)
TryCandidates(dirs, d, name, k) ==
    IF k > Len(clue_engine_candidates)
    THEN [found |-> FALSE, raised |-> "",
          text |-> NoCluePrefix \o Capitalize(name) \o NoClueSuffix]
    ELSE LET dir == ClueDir(dirs, d, clue_engine_candidates[k][1])
             at == FileAt(dir, name, clue_engine_candidates[k][2])
         IN  IF at # {}
             THEN ReadExactFile(dir.files[CHOOSE i \in at : TRUE], name)
             ELSE TryCandidates(dirs, d, name, k + 1)

\* clue_engine.py load_clue
load_clue(dirs, d, name) == TryCandidates(dirs, d, name, 1)

\* api.py line 37: not day or not suspect (day is an int here; 0 is falsy)
MissingEndpointParameter(d, name) == d = 0 \/ ~Truthy(name)

\* interrogate.py load_suspect_data: json.load raises on any malformed file
interrogate_load_suspect_data(file, name) ==
    IF Lower(name) = SuspectStem /\ file.kind # "absent"
    THEN CASE file.kind = "json" -> [raised |-> "", data |-> file.data]
           [] file.kind = "badjson" -> [raised |-> "JSONDecodeError", data |-> EmptyProfile]
           [] OTHER -> [raised |-> "UnicodeDecodeError", data |-> EmptyProfile]
    ELSE [raised |-> "", data |-> EmptyProfile]

\* str.format: one pass over the template; str(None) is "None"
FormatValue(v) == IF v.t = "str" THEN v.s ELSE <<"None">>

RECURSIVE FormatTemplate(_, _)
FormatTemplate(template, values) ==
    IF template = <<>> THEN <<>>
    ELSE (IF Head(template) \in DOMAIN values
          THEN FormatValue(values[Head(template)])
          ELSE <<Head(template)>>) \o FormatTemplate(Tail(template), values)

\* interrogate.py ask_question lines 48-62
FormatPrompt(template, name, q, data) ==
    IF data.t # "dict" THEN [error |-> "AttributeError", text |-> <<>>]
    ELSE IF data.timeline.t = "null" THEN [error |-> "AttributeError", text |-> <<>>]
    ELSE [error |-> "",
          text |-> FormatTemplate(template,
            [x \in Placeholders |->
                CASE x = "{name}" -> StrV(name)
                  [] x = "{question}" -> StrV(q)
                  [] x = "{tone}" -> Get(data.tone, StrV(<<"neutral">>))
                  [] x = "{backstory}" -> Get(data.backstory, StrV(<<>>))
                  [] x = "{time_range}" -> Get(data.timeline.time_range, StrV(<<>>))
                  [] x = "{location}" -> Get(data.timeline.location, StrV(<<>>))
                  [] OTHER -> Get(data.relationship_to_victim,
                                  StrV(<<"Unknown relationship">>))])]

\* interrogate.py line 87: the failure comes back as the reply text
ErrorReply == <<"(Error generating response)">>

-----------------------------------------------------------------------------
(* Requests *)

AskSuspects == StrUpTo({"z", "Z", " "}, MaxNameLen)
Questions == StrUpTo({"q", " ", "{name}"}, MaxQuestionLen)

NoResponse == [status |-> 0, text |-> <<>>, error |-> ""]
NotLoaded == [loaded |-> FALSE, raised |-> "", data |-> EmptyProfile]

Failure(status, error) == [status |-> status, text |-> <<>>, error |-> error]
Success(text) == [status |-> 200, text |-> text, error |-> ""]

\* server.py lines 59-65 (interrogate.py likewise): importing the module
\* raises ValueError unless the key is set; nothing else is checked before
\* the process serves requests
Started(key) == key = "set"

\* server.py line 220: not request.suspect or not request.question
MissingInput(s, q) == ~Truthy(s) \/ ~Truthy(q)

\* a client with no request in the server
IdleRequest ==
    [pc |-> "idle", op |-> "none", suspect |-> <<>>, question |-> <<>>,
     tries |-> 0, slept |-> <<>>, status |-> 0]

Clients == 1..NumClients

NoConcurrentRequests ==
    /\ requests = [c \in Clients |-> IdleRequest]
    /\ eventLoop = 0

\* main.py lines 10-16: the game has just been started
NewGame ==
    /\ console = "suspect_prompt"
    /\ gameDay = 1
    /\ interviewed = {}
    /\ chosen = ""
    /\ asked = 0
    /\ entered = ""

InitRequest ==
    /\ NoConcurrentRequests
    /\ NewGame
    /\ pc = "idle"
    /\ op = "none"
    /\ suspect = <<>>
    /\ question = <<>>
    /\ profile = NotLoaded
    /\ prompt = <<>>
    /\ attempts = <<>>
    /\ delays = <<>>
    /\ response = NoResponse
    /\ day = 0
    /\ lookups = 0

FullProfile ==
    Profile(StrV(<<"b">>), StrV(<<"t">>), StrV(<<"r">>),
            Timeline(StrV(<<"9pm">>), StrV(<<"deck">>), StrV(<<"cabin">>)))

\* Every upstream stub, over a well-formed content store
Init ==
    /\ apiKey = "set"
    /\ templateFile = [exists |-> TRUE, text |-> AllSeven]
    /\ suspectFile \in { [kind |-> "absent", data |-> EmptyProfile],
                         [kind |-> "json", data |-> FullProfile] }
    /\ upstream \in Stubs
    /\ clueDirs = [compact |-> AbsentDir, spaced |-> AbsentDir]
    /\ InitRequest

\* POST /api/ask, server.py ask_question lines 216-251, up to the first
\* upstream attempt
AskQuestion(s, q) ==
    /\ Started(apiKey)
    /\ pc = "idle"
    /\ op' = "ask"
    /\ suspect' = s
    /\ question' = q
    /\ attempts' = <<>>
    /\ delays' = <<>>
    /\ IF MissingInput(s, q)
       THEN /\ response' = Failure(400, "Missing suspect or question")
            /\ pc' = "done"
            /\ UNCHANGED <<profile, prompt>>
       ELSE LET t == load_prompt_template(templateFile)
                d == load_suspect_data(suspectFile, s)
                f == FillPrompt(t.text, s, q, d.data)
            IN  IF t.raised # ""
                THEN /\ response' = Failure(AskExcept(t), t.raised)
                     /\ pc' = "done"
                     /\ UNCHANGED <<profile, prompt>>
                ELSE IF d.raised # ""
                THEN /\ response' = Failure(AskExcept(d), d.raised)
                     /\ pc' = "done"
                     /\ profile' = [loaded |-> TRUE, raised |-> d.raised, data |-> d.data]
                     /\ UNCHANGED prompt
                ELSE IF f.error # ""
                THEN /\ response' = Failure(AskExcept([raised |-> f.error]), f.error)
                     /\ pc' = "done"
                     /\ profile' = [loaded |-> TRUE, raised |-> "", data |-> d.data]
                     /\ UNCHANGED prompt
                ELSE /\ response' = NoResponse
                     /\ pc' = "calling"
                     /\ profile' = [loaded |-> TRUE, raised |-> "", data |-> d.data]
                     /\ prompt' = f.text
    /\ UNCHANGED <<store, elsewhere, day, lookups>>

\* one pass of the @retry loop: the call of line 189 and tenacity's decision
UpstreamAttempt ==
    /\ pc = "calling"
    /\ LET n == Len(attempts) + 1
           r == call_openai(upstream[n])
       IN  /\ attempts' = Append(attempts, upstream[n])
           /\ IF ~retry_if_exception_type(r)
              THEN /\ response' = Success(r.value)
                   /\ pc' = "done"
                   /\ UNCHANGED delays
              ELSE IF stop_after_attempt(n)
              THEN /\ response' = Failure(AskExcept(RetryExhausted(r)),
                                          RetryExhausted(r).raised)
                   /\ pc' = "done"
                   /\ UNCHANGED delays
              ELSE /\ delays' = Append(delays, wait_exponential(n))
                   /\ pc' = "sleeping"
                   /\ UNCHANGED response
    /\ UNCHANGED <<store, elsewhere, op, suspect, question, profile, prompt, day, lookups>>

\* the backoff sleep of the @retry loop is over
BackoffElapsed ==
    /\ pc = "sleeping"
    /\ pc' = "calling"
    /\ UNCHANGED <<store, elsewhere, op, suspect, question, profile, prompt, attempts, delays,
                   response, day, lookups>>

\* the response is delivered; the server is ready for the next request
Finish ==
    /\ pc = "done"
    /\ pc' = "idle"
    /\ op' = "none"
    /\ suspect' = <<>>
    /\ question' = <<>>
    /\ profile' = NotLoaded
    /\ prompt' = <<>>
    /\ attempts' = <<>>
    /\ delays' = <<>>
    /\ response' = NoResponse
    /\ day' = 0
    /\ lookups' = 0
    /\ UNCHANGED <<store, elsewhere>>

\* POST /api/ask of the Flask app: api.py ask_endpoint with
\* interrogate.py ask_question, which makes one upstream call and turns any
\* exception into a reply text
AskEndpoint(s, q) ==
    /\ Started(apiKey)
    /\ pc = "idle"
    /\ pc' = "done"
    /\ op' = "ask_endpoint"
    /\ suspect' = s
    /\ question' = q
    /\ delays' = <<>>
    /\ IF MissingInput(s, q)
       THEN /\ response' = Failure(400, "Missing suspect or question")
            /\ attempts' = <<>>
            /\ UNCHANGED <<profile, prompt>>
       ELSE LET t == load_prompt_template(templateFile)
                d == interrogate_load_suspect_data(suspectFile, s)
                f == FormatPrompt(t.text, s, q, d.data)
                r == call_openai(upstream[1])
            IN  IF t.raised # ""
                THEN /\ response' = [status |-> 200, text |-> ErrorReply, error |-> t.raised]
                     /\ attempts' = <<>>
                     /\ UNCHANGED <<profile, prompt>>
                ELSE IF d.raised # ""
                THEN /\ response' = [status |-> 200, text |-> ErrorReply, error |-> d.raised]
                     /\ attempts' = <<>>
                     /\ profile' = [loaded |-> TRUE, raised |-> d.raised, data |-> d.data]
                     /\ UNCHANGED prompt
                ELSE IF f.error # ""
                THEN /\ response' = [status |-> 200, text |-> ErrorReply, error |-> f.error]
                     /\ attempts' = <<>>
                     /\ profile' = [loaded |-> TRUE, raised |-> "", data |-> d.data]
                     /\ UNCHANGED prompt
                ELSE /\ attempts' = <<upstream[1]>>
                     /\ profile' = [loaded |-> TRUE, raised |-> "", data |-> d.data]
                     /\ prompt' = f.text
                     /\ response' = IF r.raised = "" THEN Success(r.value)
                                    ELSE [status |-> 200, text |-> ErrorReply,
                                          error |-> "Exception"]
    /\ UNCHANGED <<store, elsewhere, day, lookups>>

Next ==
    \/ \E s \in AskSuspects, q \in Questions : AskQuestion(s, q)
    \/ \E s \in AskSuspects, q \in Questions : AskEndpoint(s, q)
    \/ UpstreamAttempt
    \/ BackoffElapsed
    \/ Finish

Spec == Init /\ [][Next]_vars

\* Every template and suspect file, over an upstream that always answers or
\* always fails
StoreStubs ==
    { [i \in 1..MAX_RETRIES |-> OkReply(<<"r">>)],
      [i \in 1..MAX_RETRIES |-> UpstreamError(500)] }

InitStore ==
    /\ apiKey \in {"set", "unset"}
    /\ templateFile \in TemplateFiles
    /\ suspectFile \in SuspectFiles
    /\ upstream \in StoreStubs
    /\ clueDirs = [compact |-> AbsentDir, spaced |-> AbsentDir]
    /\ InitRequest

SpecStore == InitStore /\ [][Next]_vars

-----------------------------------------------------------------------------
(* Clue requests *)

ClueSuspects == StrUpTo({"z", "Z", "s"}, MaxNameLen)
RequestDays == {-1, 0, 1, 2}

\* Every content of the two day directories, over a fixed rest of the store
InitClue ==
    /\ apiKey = "set"
    /\ templateFile = [exists |-> TRUE, text |-> AllSeven]
    /\ suspectFile = [kind |-> "absent", data |-> EmptyProfile]
    /\ upstream = [i \in 1..MAX_RETRIES |-> OkReply(<<"r">>)]
    /\ clueDirs \in [compact : Dirs(ClueFiles, MaxFiles), spaced : Dirs(SpacedFiles, 1)]
    /\ InitRequest

\* GET /api/clue, server.py get_clue lines 263-276
GetClue(d, name) ==
    /\ Started(apiKey)
    /\ pc = "idle"
    /\ pc' = "done"
    /\ op' = "clue"
    /\ day' = d
    /\ suspect' = name
    /\ IF MissingClueParameter(d, name)
       THEN /\ response' = Failure(400, "Missing or invalid day or suspect parameter")
            /\ lookups' = 0
       ELSE /\ response' = Success(load_clue_data(clueDirs, d, name))
            /\ lookups' = 1
    /\ UNCHANGED <<store, elsewhere, question, profile, prompt, attempts, delays>>

\* GET /api/clue of the Flask app, api.py clue_endpoint lines 32-44
ClueEndpoint(d, name) ==
    /\ Started(apiKey)
    /\ pc = "idle"
    /\ pc' = "done"
    /\ op' = "clue_endpoint"
    /\ day' = d
    /\ suspect' = name
    /\ IF MissingEndpointParameter(d, name)
       THEN /\ response' = Failure(400, "Missing day or suspect parameter")
            /\ lookups' = 0
       ELSE LET r == load_clue(clueDirs, d, name)
            IN  /\ response' = IF r.raised = "" THEN Success(r.text)
                               ELSE Failure(500, r.raised)
                /\ lookups' = 1
    /\ UNCHANGED <<store, elsewhere, question, profile, prompt, attempts, delays>>

NextClue ==
    \/ \E d \in RequestDays, name \in ClueSuspects : GetClue(d, name)
    \/ \E d \in RequestDays, name \in ClueSuspects : ClueEndpoint(d, name)
    \/ Finish

SpecClue == InitClue /\ [][NextClue]_vars

-----------------------------------------------------------------------------
(* Concurrent requests of one server process                               *)
(*                                                                         *)
(* uvicorn runs the handlers as coroutines on one event-loop thread.  A    *)
(* handler runs without interruption up to its next suspension point.      *)
(* openai_client is the synchronous OpenAI client (lines 70-73), so the    *)
(* call of line 189 inside the async function does not suspend: the thread *)
(* stays inside it until the upstream service has answered.  The backoff   *)
(* of @retry on an async function is an awaited sleep and does suspend.    *)

ConcSuspects == {<<"z">>}
ConcQuestions == {<<>>, <<"q">>}
ConcClueSuspects == {<<>>, <<"z">>}

\* lines 223-246: what the handler does before the upstream call; the name
\* of the exception it raises, "" if none
PrepareAsk(s, q) ==
    LET t == load_prompt_template(templateFile)
        d == load_suspect_data(suspectFile, s)
        f == FillPrompt(t.text, s, q, d.data)
    IN  IF t.raised # "" THEN t.raised
        ELSE IF d.raised # "" THEN d.raised
        ELSE f.error

\* the event-loop thread is free to run a handler
LoopFree == eventLoop = 0

InitConc ==
    /\ apiKey = "set"
    /\ templateFile = [exists |-> TRUE, text |-> AllSeven]
    /\ suspectFile = [kind |-> "json", data |-> FullProfile]
    /\ upstream \in Stubs
    /\ clueDirs = [compact |-> AbsentDir, spaced |-> AbsentDir]
    /\ requests = [c \in Clients |-> IdleRequest]
    /\ eventLoop = 0
    /\ NewGame
    /\ pc = "idle"
    /\ op = "none"
    /\ suspect = <<>>
    /\ question = <<>>
    /\ profile = NotLoaded
    /\ prompt = <<>>
    /\ attempts = <<>>
    /\ delays = <<>>
    /\ response = NoResponse
    /\ day = 0
    /\ lookups = 0

single == <<pc, op, suspect, question, profile, prompt, attempts, delays,
            response, day, lookups>>

\* POST /api/ask arrives for client c: ask_question runs on the event loop
\* up to the synchronous upstream call of line 189, where the thread stays
StartAsk(c, s, q) ==
    /\ Started(apiKey)
    /\ LoopFree
    /\ requests[c].pc = "idle"
    /\ IF MissingInput(s, q)
       THEN /\ requests' = [requests EXCEPT ![c] =
                   [IdleRequest EXCEPT !.pc = "done", !.op = "ask", !.suspect = s,
                                       !.question = q, !.status = 400]]
            /\ UNCHANGED eventLoop
       ELSE IF PrepareAsk(s, q) # ""
       THEN /\ requests' = [requests EXCEPT ![c] =
                   [IdleRequest EXCEPT !.pc = "done", !.op = "ask", !.suspect = s,
                                       !.question = q, !.status = 500]]
            /\ UNCHANGED eventLoop
       ELSE /\ requests' = [requests EXCEPT ![c] =
                   [IdleRequest EXCEPT !.pc = "upstream", !.op = "ask",
                                       !.suspect = s, !.question = q]]
            /\ eventLoop' = c
    /\ UNCHANGED <<store, single, game>>

\* the upstream service answers the call of client c: the call returns or
\* raises, tenacity decides, and the handler either finishes or suspends in
\* the backoff sleep; in both cases the thread is back in the event loop
UpstreamReturns(c) ==
    /\ eventLoop = c
    /\ requests[c].pc = "upstream"
    /\ LET n == requests[c].tries + 1
           r == call_openai(upstream[n])
       IN  requests' = [requests EXCEPT ![c] =
               IF ~retry_if_exception_type(r)
               THEN [@ EXCEPT !.pc = "done", !.tries = n, !.status = 200]
               ELSE IF stop_after_attempt(n)
               THEN [@ EXCEPT !.pc = "done", !.tries = n,
                              !.status = AskExcept(RetryExhausted(r))]
               ELSE [@ EXCEPT !.pc = "sleeping", !.tries = n,
                              !.slept = Append(@, wait_exponential(n))]]
    /\ eventLoop' = 0
    /\ UNCHANGED <<store, single, game>>

\* the backoff sleep of client c is over: the event loop resumes the retry
\* loop, which makes the next synchronous upstream call
Resume(c) ==
    /\ LoopFree
    /\ requests[c].pc = "sleeping"
    /\ requests' = [requests EXCEPT ![c].pc = "upstream"]
    /\ eventLoop' = c
    /\ UNCHANGED <<store, single, game>>

\* GET /api/clue arrives for client c: get_clue runs to its end on the loop
StartClue(c, d, name) ==
    /\ Started(apiKey)
    /\ LoopFree
    /\ requests[c].pc = "idle"
    /\ requests' = [requests EXCEPT ![c] =
           [IdleRequest EXCEPT !.pc = "done", !.op = "clue", !.suspect = name,
                               !.status = IF MissingClueParameter(d, name)
                                          THEN 400 ELSE 200]]
    /\ UNCHANGED <<eventLoop, store, single, game>>

\* client c has its response and may send its next request
Delivered(c) ==
    /\ requests[c].pc = "done"
    /\ requests' = [requests EXCEPT ![c] = IdleRequest]
    /\ UNCHANGED <<eventLoop, store, single, game>>

NextConc ==
    \/ \E c \in Clients, s \in ConcSuspects, q \in ConcQuestions : StartAsk(c, s, q)
    \/ \E c \in Clients : UpstreamReturns(c)
    \/ \E c \in Clients : Resume(c)
    \/ \E c \in Clients, name \in ConcClueSuspects : StartClue(c, 1, name)
    \/ \E c \in Clients : Delivered(c)

SpecConc == InitConc /\ [][NextConc]_vars

-----------------------------------------------------------------------------
(* The console game, app/main.py                                           *)
(*                                                                         *)
(* A line entered at a prompt is modelled after the .lower().strip() of    *)
(* the code.  What the game prints is not part of the state.               *)

\* lines entered at the suspect prompt
SuspectLines == suspects \cup {"done", "exit", "nobody"}
\* lines entered at the question prompt
QuestionLines == {"exit", "where were you?"}

server == <<store, single, requests, eventLoop>>

InitGame ==
    /\ apiKey = "set"
    /\ templateFile = [exists |-> TRUE, text |-> AllSeven]
    /\ suspectFile = [kind |-> "json", data |-> FullProfile]
    /\ upstream = [i \in 1..MAX_RETRIES |-> OkReply(<<"r">>)]
    /\ clueDirs = [compact |-> AbsentDir, spaced |-> AbsentDir]
    /\ InitRequest

\* lines 12 and 16: where the loops of main go next, given day and interviewed
LoopHead(d, seen) ==
    IF d > LAST_DAY THEN "accuse_prompt"
    ELSE IF Cardinality(seen) < Cardinality(suspects) THEN "suspect_prompt"
    ELSE "top_prompt"

\* lines 22-31: a line is entered at the suspect prompt.  'done' breaks out
\* of the `while True` of line 17 only, 'exit' returns from main, an unknown
\* or already interviewed name continues the `while True`.
EnterSuspect(line) ==
    /\ console = "suspect_prompt"
    /\ entered' = line
    /\ IF line = "done"
       THEN /\ console' = LoopHead(gameDay, interviewed)
            /\ UNCHANGED <<chosen, asked>>
       ELSE IF line = "exit"
       THEN /\ console' = "exited"
            /\ UNCHANGED <<chosen, asked>>
       ELSE IF line \notin suspects \/ line \in interviewed
       THEN /\ console' = "suspect_prompt"
            /\ UNCHANGED <<chosen, asked>>
       ELSE /\ console' = "question_prompt"
            /\ chosen' = line
            /\ asked' = 0
    /\ UNCHANGED <<gameDay, interviewed, server>>

\* lines 33-39: a line is entered at the question prompt.  'exit' ends the
\* interview, any other line is answered; after the last question the suspect
\* counts as interviewed and the loop of line 16 is tested again.
EnterQuestion(q) ==
    /\ console = "question_prompt"
    /\ LET n == IF q = "exit" THEN asked ELSE asked + 1
           over == q = "exit" \/ n = QUESTIONS_PER_SUSPECT
       IN  IF over
           THEN /\ interviewed' = interviewed \cup {chosen}
                /\ console' = LoopHead(gameDay, interviewed \cup {chosen})
                /\ chosen' = ""
                /\ asked' = 0
           ELSE /\ asked' = n
                /\ UNCHANGED <<interviewed, console, chosen>>
    /\ entered' = ""
    /\ UNCHANGED <<gameDay, server>>

\* lines 41-49: the top suspects are entered, their clues are printed and the
\* next day starts; load_clue catches nothing, so a clue file that cannot be
\* read or parsed ends the game with a traceback
EnterTopSuspects(cluesLoad) ==
    /\ console = "top_prompt"
    /\ IF cluesLoad
       THEN /\ gameDay' = gameDay + 1
            /\ interviewed' = {}
            /\ console' = LoopHead(gameDay + 1, {})
       ELSE /\ console' = "crashed"
            /\ UNCHANGED <<gameDay, interviewed>>
    /\ entered' = ""
    /\ UNCHANGED <<chosen, asked, server>>

\* lines 51-54: the final accusation
Accuse ==
    /\ console = "accuse_prompt"
    /\ console' = "over"
    /\ UNCHANGED <<gameDay, interviewed, chosen, asked, entered, server>>

NextGame ==
    \/ \E line \in SuspectLines : EnterSuspect(line)
    \/ \E q \in QuestionLines : EnterQuestion(q)
    \/ \E cluesLoad \in BOOLEAN : EnterTopSuspects(cluesLoad)
    \/ Accuse

SpecGame == InitGame /\ [][NextGame]_vars

-----------------------------------------------------------------------------
(* Properties of the generation client and the ask handler *)

AskDone == pc = "done" /\ op = "ask"

Unclassified(o) == ~o.ok /\ o.status \notin ClassifiedStatuses

\* every upstream attempt the request made failed with status st
AllFailedWith(st) ==
    /\ attempts # <<>>
    /\ \A i \in DOMAIN attempts : ~attempts[i].ok /\ attempts[i].status = st

\* the stub fails on its first k attempts and succeeds on attempt k + 1
FailsThenSucceeds(k) ==
    /\ k + 1 <= MAX_RETRIES
    /\ \A i \in 1..k : ~upstream[i].ok
    /\ upstream[k + 1].ok

NonDecreasing(seq) == \A i \in 1..(Len(seq) - 1) : seq[i] <= seq[i + 1]

WithinClamp(seq) ==
    \A i \in DOMAIN seq : INITIAL_BACKOFF_MS <= seq[i] /\ seq[i] <= MAX_BACKOFF_MS

Blank(s) == \A i \in DOMAIN s : s[i] = " "

\* C1: when every upstream attempt of an ask request fails with 401, 429 or
\* 402, the handler answers with that same status and never with 500.
C1_ClassifiedStatusSurfaced ==
    \A st \in ClassifiedStatuses :
        (AskDone /\ AllFailedWith(st)) => response.status = st

\* C2: when every upstream attempt fails with an unclassified cause, an ask
\* request makes exactly MAX_RETRIES upstream calls and then answers 500; no
\* request ever makes more than MAX_RETRIES calls.
C2_ExhaustsExactlyMaxRetries ==
    /\ Len(attempts) <= MAX_RETRIES
    /\ (AskDone /\ attempts # <<>> /\ \A i \in DOMAIN attempts : Unclassified(attempts[i]))
        => (Len(attempts) = MAX_RETRIES /\ response.status = 500)

C2_Witness ==
    /\ AskDone
    /\ Len(attempts) = MAX_RETRIES
    /\ \A i \in DOMAIN attempts : Unclassified(attempts[i])
    /\ response.status = 500
    /\ response.error = "RetryError"

\* C3: when the upstream fails on the first k < MAX_RETRIES attempts and
\* succeeds on attempt k + 1, the request returns the (trimmed) reply of that
\* attempt after exactly k + 1 upstream calls and k backoff delays; the delays
\* never decrease and stay within [INITIAL_BACKOFF_MS, MAX_BACKOFF_MS].
C3_RetryThenSuccess ==
    /\ NonDecreasing(delays)
    /\ WithinClamp(delays)
    /\ \A k \in 0..(MAX_RETRIES - 1) :
        (AskDone /\ attempts # <<>> /\ FailsThenSucceeds(k))
            => /\ response = Success(Strip(upstream[k + 1].reply))
               /\ Len(attempts) = k + 1
               /\ Len(delays) = k

C3_Witness ==
    /\ AskDone
    /\ FailsThenSucceeds(MAX_RETRIES - 1)
    /\ response.status = 200
    /\ response.text = <<"r">>
    /\ Len(attempts) = MAX_RETRIES
    /\ delays = <<1000, 2000>>

\* C4: an ask request whose suspect or question is empty or whitespace-only is
\* answered 400 and makes no upstream call.
C4_BlankInputRejected ==
    (op \in {"ask", "ask_endpoint"} /\ (Blank(suspect) \/ Blank(question)))
        => /\ attempts = <<>>
           /\ pc = "done"
           /\ response.status = 400

\* the text carries no placeholder of its own
Plain(text) == \A i \in DOMAIN text : text[i] \notin Placeholders

PlainProfile(data) ==
    /\ Plain(data.backstory.s)
    /\ Plain(data.tone.s)
    /\ Plain(data.relationship_to_victim.s)
    /\ Plain(data.timeline.time_range.s)
    /\ Plain(data.timeline.location.s)
    /\ Plain(data.timeline.claimed_location.s)

\* C7: for every template, question and loaded suspect profile (a JSON
\* object whose values may be missing or null), compiling the prompt raises
\* no error, so the request never fails because of it, and the compiled
\* prompt holds none of the seven placeholders of the template.
C7_CompilationTotal ==
    (op = "ask" /\ profile.loaded /\ profile.raised = "" /\ profile.data.t = "dict")
        => /\ response.error \notin {"TypeError", "AttributeError"}
           /\ pc \in {"calling", "sleeping"} \/ attempts # <<>>
           /\ (Plain(question) /\ PlainProfile(profile.data)) => Plain(prompt)

\* the profile file of the suspect is absent or does not hold a JSON object
AbsentOrMalformed(name) ==
    \/ Lower(name) # SuspectStem
    \/ suspectFile.kind \in {"absent", "badjson", "badutf8"}
    \/ suspectFile.data.t # "dict"

\* C8: when the profile file of the suspect is absent or malformed,
\* load_suspect_data returns the empty profile without raising, and an ask
\* request with a suspect and a question (and a template) goes on to the
\* upstream call.
C8_DefaultsOnBadProfile ==
    (op = "ask" /\ ~MissingInput(suspect, question) /\ templateFile.exists
     /\ AbsentOrMalformed(suspect))
        => /\ load_suspect_data(suspectFile, suspect) = [raised |-> "", data |-> EmptyProfile]
           /\ profile = [loaded |-> TRUE, raised |-> "", data |-> EmptyProfile]
           /\ pc \in {"calling", "sleeping"} \/ attempts # <<>>

-----------------------------------------------------------------------------
(* Properties of the clue service *)

ClueDone == pc = "done" /\ op = "clue"
EndpointDone == pc = "done" /\ op = "clue_endpoint"

\* some .json/.txt file of the directory has a lowercased name that starts
\* with the lowercased suspect name
HasCandidate(dir, name) ==
    /\ dir.exists
    /\ \E i \in DOMAIN dir.files :
        /\ dir.files[i].ext = ".json" \/ dir.files[i].ext = ".txt"
        /\ Len(name) <= Len(FileName(dir.files[i]))
        /\ \A j \in 1..Len(name) :
            LowerChar(FileName(dir.files[i])[j]) = LowerChar(name[j])

NoCandidate(d, name) ==
    /\ ~HasCandidate(ClueDir(clueDirs, d, "compact"), name)
    /\ ~HasCandidate(ClueDir(clueDirs, d, "spaced"), name)

Sentinel(name) == <<"No new clues for ">> \o Capitalize(name) \o <<" today.">>
ClueAnswer(name, x) == <<"[puzzle] Clue about ">> \o Capitalize(name) \o <<": ">> \o x

\* C5: when neither day directory holds a .json/.txt file whose lowercased
\* name starts with the lowercased suspect, the lookup returns exactly the
\* sentinel "No new clues for <Capitalized(suspect)> today.", and a request
\* that reaches the lookup is answered with it as a success.
C5_NoClueSentinel ==
    /\ (ClueDone /\ NoCandidate(day, suspect))
        => /\ load_clue_data(clueDirs, day, suspect) = Sentinel(suspect)
           /\ lookups = 1 => response = Success(Sentinel(suspect))
    /\ (EndpointDone /\ NoCandidate(day, suspect))
        => /\ load_clue(clueDirs, day, suspect).raised = ""
           /\ load_clue(clueDirs, day, suspect).text = Sentinel(suspect)
           /\ lookups = 1 => response = Success(Sentinel(suspect))

C5_Witness ==
    /\ ClueDone
    /\ NoCandidate(day, suspect)
    /\ day = 1
    /\ clueDirs.compact.exists
    /\ clueDirs.compact.files # <<>>
    /\ suspect = <<"Z">>
    /\ response = Success(<<"No new clues for ", "Z", " today.">>)

\* C6: a clue request whose day is not a positive integer or whose suspect is
\* empty is answered 400 without a lookup; only day >= 1 with a non-empty
\* suspect reaches the lookup.
C6_ClueValidation ==
    (ClueDone \/ EndpointDone) =>
        IF day <= 0 \/ suspect = <<>>
        THEN response.status = 400 /\ lookups = 0
        ELSE lookups = 1

\* the file day{N}/<lower(suspect)>.json holding exactly {"clue": X}
IsRoundTripFile(f, name) ==
    /\ f.stem = Lower(name)
    /\ f.ext = ".json"
    /\ f.kind = "json"
    /\ f.clue.t = "str"
    /\ f.text.t = "missing"
    /\ f.content.t = "missing"

\* no .json/.txt file before position i of the listing starts with the suspect
FirstCandidate(dir, i, name) ==
    ~HasCandidate([exists |-> TRUE, files |-> SubSeq(dir.files, 1, i - 1)], name)

\* C9 as stated: when day{N}/<lower(suspect)>.json holds {"clue": X}, the
\* request is answered "[puzzle] Clue about <Capitalized(suspect)>: X",
\* whatever else the day directories hold.
C9_RoundTripAnyStore ==
    \A i \in DOMAIN clueDirs.compact.files :
        ((ClueDone \/ EndpointDone) /\ day = 1 /\ lookups = 1 /\ clueDirs.compact.exists
         /\ IsRoundTripFile(clueDirs.compact.files[i], suspect))
            => response = Success(ClueAnswer(suspect, clueDirs.compact.files[i].clue.s))

\* C9 amended: when day{N}/<lower(suspect)>.json holds {"clue": X} with X not
\* empty, and no other .json/.txt file starting with the suspect name comes
\* before it in the listing of day{N}, get_clue answers
\* "[puzzle] Clue about <Capitalized(suspect)>: X", whatever the other
\* directory variant holds; load_clue, which tries "day {N}" first, gives
\* that answer for every X when "day {N}" holds no <lower(suspect)>.json or
\* <lower(suspect)>.txt.
C9_RoundTripFirstCandidate ==
    \A i \in DOMAIN clueDirs.compact.files :
        /\ (ClueDone /\ day = 1 /\ lookups = 1 /\ clueDirs.compact.exists
             /\ IsRoundTripFile(clueDirs.compact.files[i], suspect)
             /\ clueDirs.compact.files[i].clue.s # <<>>
             /\ FirstCandidate(clueDirs.compact, i, suspect))
                => response = Success(ClueAnswer(suspect, clueDirs.compact.files[i].clue.s))
        /\ (EndpointDone /\ day = 1 /\ lookups = 1 /\ clueDirs.compact.exists
             /\ IsRoundTripFile(clueDirs.compact.files[i], suspect)
             /\ \A j \in DOMAIN clueDirs.spaced.files :
                    clueDirs.spaced.files[j].stem # Lower(suspect))
                => response = Success(ClueAnswer(suspect, clueDirs.compact.files[i].clue.s))

C9_Witness ==
    /\ ClueDone
    /\ day = 1
    /\ suspect = <<"Z">>
    /\ Len(clueDirs.compact.files) = MaxFiles
    /\ IsRoundTripFile(clueDirs.compact.files[1], suspect)
    /\ clueDirs.compact.files[2].stem = <<"z", "s">>
    /\ HasCandidate(clueDirs.spaced, suspect)
    /\ response = Success(<<"[puzzle] Clue about ", "Z", ": ", "X">>)

\* the JSON object the lookup selects in day{N}: the first candidate there
SelectsJson(i, name) ==
    /\ day = 1
    /\ clueDirs.compact.exists
    /\ i \in DOMAIN clueDirs.compact.files
    /\ clueDirs.compact.files[i].ext = ".json"
    /\ clueDirs.compact.files[i].kind = "json"
    /\ HasCandidate([exists |-> TRUE, files |-> <<clueDirs.compact.files[i]>>], name)
    /\ FirstCandidate(clueDirs.compact, i, name)

ChainFallback == <<"No clue text found in JSON">>

\* str() of a JSON value inside the f-string
Rendered(v) == IF v.t = "str" THEN v.s ELSE <<"None">>

\* clue, then text, then content: the first field present in the record
FirstPresent(f) ==
    IF f.clue.t # "missing" THEN Rendered(f.clue)
    ELSE IF f.text.t # "missing" THEN Rendered(f.text)
    ELSE IF f.content.t # "missing" THEN Rendered(f.content)
    ELSE ChainFallback

NonEmptyText(v) == v.t = "str" /\ v.s # <<>>

\* clue, then text, then content: the first field holding a non-empty text
FirstNonEmpty(f) ==
    LET chain == <<f.clue, f.text, f.content>>
        filled == {k \in 1..3 : NonEmptyText(chain[k])}
    IN  IF filled = {} THEN ChainFallback
        ELSE chain[CHOOSE k \in filled : \A m \in filled : k <= m].s

\* C10 as stated: the clue text of a selected JSON file is the first of clue,
\* text, content that is present in the record, and the fallback text only
\* when none of the three is present.
C10_FirstPresentWins ==
    \A i \in DOMAIN clueDirs.compact.files :
        (ClueDone /\ lookups = 1 /\ SelectsJson(i, suspect))
            => response = Success(ClueAnswer(suspect, FirstPresent(clueDirs.compact.files[i])))

\* C10 amended: the clue text of a selected JSON file is the first of clue,
\* text, content that holds a non-empty value, and the fallback text when
\* none of the three does (a field that is present but null or empty is
\* passed over).
C10_FirstNonEmptyWins ==
    \A i \in DOMAIN clueDirs.compact.files :
        (ClueDone /\ lookups = 1 /\ SelectsJson(i, suspect))
            => response = Success(ClueAnswer(suspect, FirstNonEmpty(clueDirs.compact.files[i])))

C10_Witness ==
    /\ ClueDone
    /\ lookups = 1
    /\ SelectsJson(1, suspect)
    /\ clueDirs.compact.files[1].clue = StrV(<<>>)
    /\ clueDirs.compact.files[1].text = StrV(<<"T">>)
    /\ response = Success(<<"[puzzle] Clue about ", "Z", ": ", "T">>)

\* a file whose content can be read and parsed as what its suffix promises
Readable(f) == f.kind = "json" \/ f.kind = "text"

\* the directory holds a matching .json/.txt file that is also readable
HasReadableCandidate(dir, name) ==
    HasCandidate([exists |-> dir.exists,
                  files |-> SelectSeq(dir.files, Readable)], name)

ReadableRemains(d, name) ==
    \/ HasReadableCandidate(ClueDir(clueDirs, d, "compact"), name)
    \/ HasReadableCandidate(ClueDir(clueDirs, d, "spaced"), name)

\* C11: the clue lookup never raises, and a candidate that fails to read or
\* parse is skipped while the search goes on over the other matching files and
\* the other day directory: a lookup is answered as a success, the answer is
\* a clue whenever a readable matching file exists in either directory, and
\* it is the sentinel only when no readable candidate remains.
C11_SearchContinuesPastFailure ==
    ClueDone /\ lookups = 1 =>
        /\ response.status = 200
        /\ ReadableRemains(day, suspect) => response.text # Sentinel(suspect)
        /\ ~ReadableRemains(day, suspect) => response.text = Sentinel(suspect)

-----------------------------------------------------------------------------
(* Properties of process start *)

NeedsTemplate == op \in {"ask", "ask_endpoint"} /\ ~MissingInput(suspect, question)

\* C12: a missing prompt template is fatal at process start and never a
\* per-request condition: while the template file is absent no ask request
\* that would need it is answered, neither with an error response nor with an
\* error text returned as the reply.
C12_MissingTemplateStartupFatal ==
    ~templateFile.exists => ~(pc = "done" /\ NeedsTemplate)

-----------------------------------------------------------------------------
(* Properties of concurrent requests *)

CanStart(b) ==
    /\ ENABLED (\E s \in ConcSuspects, q \in ConcQuestions : StartAsk(b, s, q))
    /\ ENABLED (\E name \in ConcClueSuspects : StartClue(b, 1, name))

\* while the request of a is in the given position, idle clients can start
DoesNotBlock(position) ==
    \A a, b \in Clients :
        a # b /\ requests[a].pc = position /\ requests[b].pc = "idle" => CanStart(b)

\* no other request of the process is inside an upstream call
OnlySleepers(a) == \A c \in Clients \ {a} : requests[c].pc # "upstream"

BackoffDoesNotBlock ==
    \A a, b \in Clients :
        a # b /\ requests[a].pc = "sleeping" /\ OnlySleepers(a)
              /\ requests[b].pc = "idle" => CanStart(b)

\* the n-th attempt of a request is made only after n - 1 have ended, each
\* but the last followed by one sleep
AttemptsSequential ==
    \A c \in Clients :
        /\ requests[c].tries <= MAX_RETRIES
        /\ requests[c].pc = "upstream" =>
              eventLoop = c /\ Len(requests[c].slept) = requests[c].tries
        /\ requests[c].pc = "sleeping" =>
              Len(requests[c].slept) = requests[c].tries

\* C13: a request never has to wait for another request's upstream call or
\* backoff sleep: whenever some client's request is waiting on the upstream
\* service or sleeping between attempts, every idle client can have an ask
\* request and a clue request started; and the upstream attempts of one
\* request are sequential, at most one being outstanding at any time.
C13_RequestsDoNotWait ==
    /\ DoesNotBlock("upstream")
    /\ DoesNotBlock("sleeping")
    /\ AttemptsSequential

-----------------------------------------------------------------------------
(* Properties of the console game *)

EndOfDay == console = "top_prompt"

\* the end-of-day step is reached only with every suspect interviewed
EndOfDayOnlyAfterAll == EndOfDay => interviewed = suspects

\* C14: entering 'done' at the suspect prompt skips the rest of the day's
\* interrogation phase: right after 'done' was entered (which happens only
\* while fewer than all suspects have been interviewed) the game is at the
\* end-of-day step, no further suspect having to be interviewed.
C14_DoneSkipsToEndOfDay ==
    entered = "done" => EndOfDay

====
